---------------------------- MODULE Spec2Model ----------------------------
(***************************************************************************)
(* Pricing / estimation engine of the framing point-of-sale application    *)
(* (shared/pricing.ts) and the callers that feed it.                       *)
(*                                                                         *)
(* Number representation.  The TypeScript code computes on IEEE doubles;   *)
(* the model computes on exact fixed-point integers:                       *)
(*   - lengths (imageWidth, matWidth, finishedWidth, perimeter) are counted*)
(*     in quarter inches, the step of the dimension inputs (DimScale);     *)
(*   - areas are counted in sixteenths of a square inch (AreaScale);       *)
(*   - unit prices are counted in cents per inch / per square inch;        *)
(*   - tier and complexity multipliers are counted in tenths;              *)
(*   - unrounded money is counted in Micro units, Micro of them to a cent, *)
(*     fine enough that every product, the halving of the rush fee and the *)
(*     8.75% tax are exact integers on the quarter-inch grid;              *)
(*   - money returned by calculateFramingPrice is counted in cents.        *)
(* Math.round(x * 100) / 100 is the exact round-half-up to a cent.  NaN    *)
(* and Infinity are the two distinguished values below, and every         *)
(* arithmetic operator of the code goes through Add / Mul / Half, which    *)
(* propagate NaN as JavaScript does.                                       *)
(***************************************************************************)
EXTENDS Integers, Sequences, FiniteSets, TLC

VARIABLES
    specs,        \* the OrderSpecs of the latest call of calculateFramingPrice
    result,       \* what that call returned
    today,        \* the current date, in days; day 0 is a Sunday
    completion,   \* the dates calculateEstimatedCompletion returned last (none or one)
    memo,         \* earlier calls of calculateFramingPrice kept for comparison
    asked,        \* the arguments of the call that returned completion (none or one)
    orders,       \* the rows of the orders table, in insertion order
    counted,      \* the currentWorkload the latest POST /orders read (none or one)
    loop,         \* the running call of calculateEstimatedCompletion: its position and completionDate
    pos,          \* the order form of the point of sale: its state and the row it inserted last
    manager,      \* the development start script: the manager process, its timers and the server child
    numbers,      \* order numbers: the time in milliseconds, and per creation path the order_number column and the inserts it rejected
    ledger,       \* payments: the payment columns of the orders and the rows of the payments table
    analysis      \* the order created with an image (none or one), as created and as stored, and the AI analysis started for it

\* the state of the pricing form, the estimator's callers and the order routes
engine == <<specs, result, today, completion, memo, asked, orders, counted>>

\* the state of the other processes
rest == <<loop, pos, manager, numbers, ledger, analysis>>

vars == <<engine, rest>>

(***************************************************************************)
(* JavaScript values                                                       *)
(***************************************************************************)
NaN == -2147483647
Infinity == 2147483647

IsNaN(x) == x = NaN

\* ToBoolean of a number: 0 and NaN are falsy.
Truthy(x) == x # 0 /\ ~IsNaN(x)

Add(a, b) == IF IsNaN(a) \/ IsNaN(b) THEN NaN ELSE a + b
Mul(a, b) == IF IsNaN(a) \/ IsNaN(b) THEN NaN ELSE a * b
\* x * 0.5
Half(x) == IF IsNaN(x) THEN NaN ELSE x \div 2
\* a <= b: every comparison with NaN is false.
Leq(a, b) == ~IsNaN(a) /\ ~IsNaN(b) /\ a <= b

\* Names every plain object inherits from Object.prototype: obj[k] yields a
\* function (or, for __proto__, an object) for them, not undefined.
ObjectPrototypeKeys ==
    {"constructor", "toString", "toLocaleString", "valueOf", "hasOwnProperty",
     "isPrototypeOf", "propertyIsEnumerable", "__proto__"}

(***************************************************************************)
(* Scales                                                                  *)
(***************************************************************************)
\* quarter inches to the inch (step="0.25" of the dimension inputs)
DimScale == 4
\* sixteenths of a square inch to the square inch
AreaScale == DimScale * DimScale
\* Micro units to the cent: 1/32 cent resolves half of (cents * sixteenths),
\* and 1/80 of that resolves the tax rate 0.0875 = 7/80.
Micro == 32 * 80

(***************************************************************************)
(* Tables of shared/pricing.ts                                             *)
(***************************************************************************)
\* minSize / maxSize in sixteenths of a square inch, basePrice in dollars,
\* laborMultiplier in tenths.
PRICING_TIERS ==
    << [minSize |-> 0 * AreaScale,    maxSize |-> 64 * AreaScale,   basePrice |-> 45,  laborMultiplier |-> 10],
       [minSize |-> 65 * AreaScale,   maxSize |-> 144 * AreaScale,  basePrice |-> 65,  laborMultiplier |-> 12],
       [minSize |-> 145 * AreaScale,  maxSize |-> 320 * AreaScale,  basePrice |-> 85,  laborMultiplier |-> 14],
       [minSize |-> 321 * AreaScale,  maxSize |-> 576 * AreaScale,  basePrice |-> 125, laborMultiplier |-> 16],
       [minSize |-> 577 * AreaScale,  maxSize |-> 1024 * AreaScale, basePrice |-> 185, laborMultiplier |-> 18],
       [minSize |-> 1025 * AreaScale, maxSize |-> 1600 * AreaScale, basePrice |-> 265, laborMultiplier |-> 20],
       [minSize |-> 1601 * AreaScale, maxSize |-> Infinity,         basePrice |-> 350, laborMultiplier |-> 25] >>

\* unit prices in cents
MATERIAL_PRICING ==
    [ frames  |-> ("basic-wood" :> 250) @@ ("premium-wood" :> 450) @@
                  ("metal-standard" :> 325) @@ ("metal-premium" :> 575) @@
                  ("ornate-gold" :> 850) @@ ("contemporary" :> 625),
      mats    |-> ("standard" :> 15) @@ ("conservation" :> 25) @@
                  ("fabric" :> 35) @@ ("specialty" :> 45),
      glass   |-> ("regular" :> 8) @@ ("uv-protection" :> 18) @@
                  ("museum" :> 35) @@ ("anti-glare" :> 22),
      backing |-> ("standard" :> 5) @@ ("archival" :> 12) @@ ("foam-core" :> 8) ]

\* The category defaults written after || in calculateFramingPrice, in cents.
DefaultUnitPrice ==
    [ frames |-> 300, mats |-> 15, glass |-> 8, backing |-> 5 ]

\* (MATERIAL_PRICING[category][key] || default): an own key yields its price
\* (a price of 0 would be falsy and yield the default); an inherited property
\* yields a function, truthy, which the following multiplication turns into
\* NaN; any other key yields undefined and so the default.
UnitPrice(category, key) ==
    LET table == MATERIAL_PRICING[category]
    IN  IF key \in DOMAIN table
          THEN IF Truthy(table[key]) THEN table[key] ELSE DefaultUnitPrice[category]
          ELSE IF key \in ObjectPrototypeKeys
                 THEN NaN
                 ELSE DefaultUnitPrice[category]

\* { simple: 1.0, medium: 1.3, complex: 1.7 }[complexity], in tenths; a value
\* outside the three keys yields undefined (or an inherited function), and
\* the multiplication that follows yields NaN.
ComplexityTable == ("simple" :> 10) @@ ("medium" :> 13) @@ ("complex" :> 17)

complexityMultiplier(complexity) ==
    IF complexity \in DOMAIN ComplexityTable THEN ComplexityTable[complexity] ELSE NaN

\* The ten fields of the breakdown calculateFramingPrice returns.
BreakdownFields ==
    {"basePrice", "framePrice", "matPrice", "glassPrice", "backingPrice",
     "laborPrice", "rushFee", "subtotal", "tax", "total"}

(***************************************************************************)
(* calculateFramingPrice                                                   *)
(***************************************************************************)
\* The argument s is a record; an omitted optional property (matWidth, matHeight,
\* matType, rush) is a field that is not in DOMAIN specs.
Has(s, field) == field \in DOMAIN s

\* (specs.matWidth || 0)
MatBorder(s, field) ==
    IF Has(s, field) /\ Truthy(s[field]) THEN s[field] ELSE 0

\* Mutant: the mat border counted on one side only.
finishedWidth_MatOnce(s) == Add(s.imageWidth, MatBorder(s, "matWidth"))

finishedWidth(s)  == Add(s.imageWidth,  Mul(MatBorder(s, "matWidth"), 2))
finishedHeight(s) == Add(s.imageHeight, Mul(MatBorder(s, "matHeight"), 2))
finishedArea(s)   == Mul(finishedWidth(s), finishedHeight(s))

\* Mutant: width + height, not doubled.
perimeter_OneOfEach(s) == Add(finishedWidth(s), finishedHeight(s))

perimeter(s)      == Mul(Add(finishedWidth(s), finishedHeight(s)), 2)

\* Mutant: the lower bound of a tier excluded from it.
MatchingTiers_AboveMin(area) ==
    { i \in DOMAIN PRICING_TIERS :
        /\ Leq(PRICING_TIERS[i].minSize, area) /\ PRICING_TIERS[i].minSize # area
        /\ Leq(area, PRICING_TIERS[i].maxSize) }

\* The indices of the tiers whose [minSize, maxSize] contains the area.
MatchingTiers(area) ==
    { i \in DOMAIN PRICING_TIERS :
        Leq(PRICING_TIERS[i].minSize, area) /\ Leq(area, PRICING_TIERS[i].maxSize) }

\* PRICING_TIERS.find(...) || PRICING_TIERS[PRICING_TIERS.length - 1]
TierFor(area) ==
    LET matching == MatchingTiers(area)
    IN  IF matching # {}
          THEN PRICING_TIERS[CHOOSE i \in matching : \A j \in matching : i <= j]
          ELSE PRICING_TIERS[Len(PRICING_TIERS)]

\* specs.matType ? ... : 0 -- undefined and the empty string are falsy.
MatSelected(s) == Has(s, "matType") /\ s.matType # ""

\* Mutant: a weekend call counts as a rush order.
RushSelected_OrWeekend(s) ==
    (Has(s, "rush") /\ s.rush = TRUE) \/ today % 7 \in {0, 6}

\* specs.rush ? ... : 0
RushSelected(s) == Has(s, "rush") /\ s.rush = TRUE

\* subtotal * 0.0875, exact because every subtotal is a multiple of 80 Micro
TaxOf(subtotal) == IF IsNaN(subtotal) THEN NaN ELSE (subtotal \div 80) * 7

\* Mutant: the rush surcharge taken on every component, backing and base
\* price included.
Totals_RushOnAll(basePrice, framePrice, matPrice, glassPrice, backingPrice, laborPrice, rush) ==
    LET rushFee  == IF rush
                      THEN Half(Add(Add(Add(Add(Add(basePrice, framePrice), matPrice),
                                            glassPrice), backingPrice), laborPrice))
                      ELSE 0
        subtotal == Add(Add(Add(Add(Add(Add(basePrice, framePrice), matPrice),
                                    glassPrice), backingPrice), laborPrice), rushFee)
    IN  [ basePrice |-> basePrice, framePrice |-> framePrice, matPrice |-> matPrice,
          glassPrice |-> glassPrice, backingPrice |-> backingPrice,
          laborPrice |-> laborPrice, rushFee |-> rushFee, subtotal |-> subtotal,
          tax |-> TaxOf(subtotal), total |-> Add(subtotal, TaxOf(subtotal)) ]

\* Mutant: the tax taken on the subtotal without the rush fee.
Totals_RushUntaxed(basePrice, framePrice, matPrice, glassPrice, backingPrice, laborPrice, rush) ==
    LET rushFee  == IF rush
                      THEN Half(Add(Add(Add(framePrice, matPrice), glassPrice), laborPrice))
                      ELSE 0
        untaxed  == Add(Add(Add(Add(Add(basePrice, framePrice), matPrice),
                                glassPrice), backingPrice), laborPrice)
        subtotal == Add(untaxed, rushFee)
    IN  [ basePrice |-> basePrice, framePrice |-> framePrice, matPrice |-> matPrice,
          glassPrice |-> glassPrice, backingPrice |-> backingPrice,
          laborPrice |-> laborPrice, rushFee |-> rushFee, subtotal |-> subtotal,
          tax |-> TaxOf(untaxed), total |-> Add(subtotal, TaxOf(untaxed)) ]

\* Lines 118-123 on the unrounded component prices (Micro units): the rush
\* fee, the subtotal, the tax and the total.
Totals(basePrice, framePrice, matPrice, glassPrice, backingPrice, laborPrice, rush) ==
    LET rushFee  == IF rush
                      THEN Half(Add(Add(Add(framePrice, matPrice), glassPrice), laborPrice))
                      ELSE 0
        subtotal == Add(Add(Add(Add(Add(Add(basePrice, framePrice), matPrice),
                                    glassPrice), backingPrice), laborPrice), rushFee)
    IN  [ basePrice |-> basePrice, framePrice |-> framePrice, matPrice |-> matPrice,
          glassPrice |-> glassPrice, backingPrice |-> backingPrice,
          laborPrice |-> laborPrice, rushFee |-> rushFee, subtotal |-> subtotal,
          tax |-> TaxOf(subtotal), total |-> Add(subtotal, TaxOf(subtotal)) ]

\* Mutant: the frame priced by the finished area, as the sheet materials are.
Components_FrameByArea(s, tier, area, perim) ==
    Totals(tier.basePrice * 100 * Micro,
           Mul(Mul(UnitPrice("frames", s.frameStyle), area), Micro \div AreaScale),
           IF MatSelected(s)
             THEN Mul(Mul(UnitPrice("mats", s.matType), area), Micro \div AreaScale)
             ELSE 0,
           Mul(Mul(UnitPrice("glass", s.glassType), area), Micro \div AreaScale),
           Mul(Mul(UnitPrice("backing", s.backingType), area), Micro \div AreaScale),
           Mul(Mul(tier.basePrice * tier.laborMultiplier,
                   complexityMultiplier(s.complexity)), Micro),
           RushSelected(s))

\* Mutant: labor without the tier's laborMultiplier.
Components_LaborFlat(s, tier, area, perim) ==
    Totals(tier.basePrice * 100 * Micro,
           Mul(Mul(UnitPrice("frames", s.frameStyle), perim), Micro \div DimScale),
           IF MatSelected(s)
             THEN Mul(Mul(UnitPrice("mats", s.matType), area), Micro \div AreaScale)
             ELSE 0,
           Mul(Mul(UnitPrice("glass", s.glassType), area), Micro \div AreaScale),
           Mul(Mul(UnitPrice("backing", s.backingType), area), Micro \div AreaScale),
           Mul(Mul(tier.basePrice * 10,
                   complexityMultiplier(s.complexity)), Micro),
           RushSelected(s))

\* Lines 98-116 for the tier found and the finished area and perimeter.
Components(s, tier, area, perim) ==
    Totals(tier.basePrice * 100 * Micro,
           Mul(Mul(UnitPrice("frames", s.frameStyle), perim), Micro \div DimScale),
           IF MatSelected(s)
             THEN Mul(Mul(UnitPrice("mats", s.matType), area), Micro \div AreaScale)
             ELSE 0,
           Mul(Mul(UnitPrice("glass", s.glassType), area), Micro \div AreaScale),
           Mul(Mul(UnitPrice("backing", s.backingType), area), Micro \div AreaScale),
           Mul(Mul(tier.basePrice * tier.laborMultiplier,
                   complexityMultiplier(s.complexity)), Micro),
           RushSelected(s))

\* The unrounded values of lines 87-123, money in Micro units.
Unrounded(s) == Components(s, TierFor(finishedArea(s)), finishedArea(s), perimeter(s))

\* Math.round(x * 100) / 100: Micro units in, cents out, half a cent rounds up
\* (\div rounds toward minus infinity, as Math.round does after adding 0.5).
RoundCents(x) == IF IsNaN(x) THEN NaN ELSE (x + Micro \div 2) \div Micro

\* Mutant: the components rounded first and the subtotal summed from the
\* rounded components.
Rounded_SumOfRounded(u) ==
    [ k \in DOMAIN u |->
        IF k = "basePrice" THEN u[k] \div Micro
        ELSE IF k = "subtotal"
          THEN Add(Add(Add(Add(Add(Add(u.basePrice \div Micro, RoundCents(u.framePrice)),
                                   RoundCents(u.matPrice)), RoundCents(u.glassPrice)),
                           RoundCents(u.backingPrice)), RoundCents(u.laborPrice)),
                   RoundCents(u.rushFee))
          ELSE RoundCents(u[k]) ]

\* Lines 126-137: every field but basePrice goes through Math.round.
Rounded(u) ==
    [ k \in DOMAIN u |-> IF k = "basePrice" THEN u[k] \div Micro ELSE RoundCents(u[k]) ]

\* The returned object: breakdown in cents, finishedSize in quarter inches and
\* sixteenths of a square inch.
calculateFramingPrice(s) ==
    [ breakdown |-> Rounded(Unrounded(s)),
      finishedSize |->
        [ width  |-> finishedWidth(s),
          height |-> finishedHeight(s),
          area   |-> finishedArea(s) ] ]

(***************************************************************************)
(* calculateEstimatedCompletion                                            *)
(***************************************************************************)
BaseProcessingDays == ("simple" :> 3) @@ ("medium" :> 5) @@ ("complex" :> 8)

\* Mutant: the multipliers of rush and express exchanged.
PriorityAdjustment_Swapped == ("standard" :> 100) @@ ("rush" :> 25) @@ ("express" :> 50)

\* in hundredths
PriorityAdjustment == ("standard" :> 100) @@ ("rush" :> 50) @@ ("express" :> 25)

Max(a, b) == IF a >= b THEN a ELSE b

\* Math.ceil(n / d) for d > 0
CeilDiv(n, d) == -((-n) \div d)

\* Date.getDay(): 0 is Sunday, 6 is Saturday
getDay(date) == date % 7

RECURSIVE SkipWeekends(_)
\* while (getDay() === 0 || getDay() === 6) setDate(getDate() + 1)
SkipWeekends(date) ==
    IF getDay(date) = 0 \/ getDay(date) = 6 THEN SkipWeekends(date + 1) ELSE date

\* Mutant: the workload delay capped at five days.
totalDays_Capped(currentWorkload, orderComplexity, priority) ==
    IF orderComplexity \notin DOMAIN BaseProcessingDays
       \/ priority \notin DOMAIN PriorityAdjustment
      THEN NaN
      ELSE LET workloadDelay == Max(0, currentWorkload - 15)
               capped        == IF workloadDelay > 10 THEN 10 ELSE workloadDelay
           IN  CeilDiv((2 * BaseProcessingDays[orderComplexity] + capped)
                         * PriorityAdjustment[priority], 200)

\* Math.ceil((baseProcessingDays + workloadDelay) * priorityAdjustment), the
\* workload delay counted in half days.  A complexity or priority outside
\* the tables yields undefined and so NaN.
totalDays(currentWorkload, orderComplexity, priority) ==
    IF orderComplexity \notin DOMAIN BaseProcessingDays
       \/ priority \notin DOMAIN PriorityAdjustment
      THEN NaN
      ELSE LET workloadDelay == Max(0, currentWorkload - 15)
           IN  CeilDiv((2 * BaseProcessingDays[orderComplexity] + workloadDelay)
                         * PriorityAdjustment[priority], 200)

\* Mutant: the date is not moved off a weekend.
calculateEstimatedCompletion_NoSkip(now, currentWorkload, orderComplexity, priority) ==
    LET days == totalDays(currentWorkload, orderComplexity, priority)
    IN  IF IsNaN(days) THEN NaN ELSE now + days

\* now is the date new Date() reads.  setDate(NaN) makes the date invalid,
\* getDay() of an invalid date is NaN, the loop does not run, and the
\* invalid date (NaN here) is returned.
calculateEstimatedCompletion(now, currentWorkload, orderComplexity, priority) ==
    LET days == totalDays(currentWorkload, orderComplexity, priority)
    IN  IF IsNaN(days) THEN NaN ELSE SkipWeekends(now + days)

(***************************************************************************)
(* Inputs                                                                  *)
(***************************************************************************)
MaxWidthSteps == 1
MaxMatSteps == 1
MaxDay == 6

\* quarter inches: 0, 10.75 in, and multiples of 16 in
ImageWidths == {0, 43} \cup {64 * k : k \in 1..MaxWidthSteps}
\* quarter inches: 6 in and 20 in
ImageHeights == {24, 80}
\* quarter inches: multiples of 2 in
MatBorders == {8 * k : k \in 1..MaxMatSteps}

\* table keys, a key of no table, and (frames) an inherited property name
FrameStyles == {"contemporary", "basic-wood", "walnut", "constructor"}
\* the two no-mat values of the forms, a table key, a key of no table
MatTypes == {"", "none", "conservation", "linen"}
GlassTypes == {"uv-protection", "acrylic"}
BackingTypes == {"archival", "cork"}
Complexities == {"simple", "medium", "complex"}
Priorities == {"standard", "rush", "express"}
Workloads == {10, 20}
\* below, at and above the threshold of 15, and far above it
AnyWorkloads == {10, 15, 16, 20, 40}
\* quarter inches, what parseFloat yields for any submitted number: negative,
\* zero and positive
AnyWidths == {-64, -16, 0, 16, 64}
AnyHeights == {-80, 0, 24, 80}
\* the enumeration and a value outside it
AnyComplexities == Complexities \cup {"expert"}

MaxOrders == 2

\* the columns of the production board
Statuses == {"quote", "approved", "in_production", "quality_check", "ready"}

\* A complete order form: 16 x 20 in, 2 in mat, every material chosen.
FullOrderData ==
    [ imageWidth |-> 64, imageHeight |-> 80, matWidth |-> 8, matHeight |-> 8,
      frameStyle |-> "basic-wood", matType |-> "conservation",
      glassType |-> "museum", backingType |-> "archival",
      complexity |-> "complex", total |-> 100 * 100 ]
\* An order with the image size only.
BareOrderData == [ imageWidth |-> 64, imageHeight |-> 80 ]

\* An order whose image width is 0, with a total worked out by the client.
ZeroWidthOrderData == [ imageWidth |-> 0, imageHeight |-> 80, total |-> 100 * 100 ]

\* The request bodies of POST /orders: a complete or a bare order, priority
\* and status given or left out, and an order of width 0 with and without a
\* total.
OrderDatas ==
    { [ k \in DOMAIN base \cup given |->
          IF k = "priority" THEN p
          ELSE IF k = "status" THEN "approved"
          ELSE base[k] ] :
        base \in {FullOrderData, BareOrderData}, p \in Priorities,
        given \in {{}, {"priority"}, {"status"}, {"priority", "status"}} }
    \cup { ZeroWidthOrderData, [ imageWidth |-> 0, imageHeight |-> 80 ] }

\* The specs the pricing calculator form starts from.
InitialSpecs ==
    [ imageWidth |-> 64, imageHeight |-> 80, matWidth |-> 8, matHeight |-> 8,
      frameStyle |-> "contemporary", matType |-> "conservation",
      glassType |-> "uv-protection", backingType |-> "archival",
      complexity |-> "medium", rush |-> FALSE ]

\* { ...specs, [key]: value }
With(s, key, value) == [ k \in DOMAIN s \cup {key} |-> IF k = key THEN value ELSE s[k] ]
\* specs with the optional property key left out
Without(s, key) == [ k \in DOMAIN s \ {key} |-> s[k] ]

(***************************************************************************)
(* The order form of the point of sale (components/FramingPOS.tsx)         *)
(***************************************************************************)
\* The form computes on its own: money before rounding is counted in Fine
\* units, Fine of them to a cent (quarter inches, sixteenths of a square
\* inch and the halving of the rush fee are exact).
Fine == 32

\* unit_price of the seeded materials by sku, in cents
materialsToSeed ==
    ("FRAME-OAK-001" :> 2850) @@ ("FRAME-MTL-001" :> 3500) @@ ("FRAME-GLD-001" :> 4500) @@
    ("FRAME-PIN-001" :> 3200) @@ ("FRAME-SLV-001" :> 3800) @@
    ("MAT-WHT-001" :> 1500) @@ ("MAT-CRM-001" :> 1500) @@ ("MAT-BLK-001" :> 1800) @@
    ("MAT-DBL-001" :> 2500) @@ ("MAT-CON-001" :> 2200) @@
    ("GLS-REG-001" :> 1200) @@ ("GLS-UV-001" :> 2500) @@ ("GLS-MUS-001" :> 4500) @@
    ("GLS-AG-001" :> 3000) @@
    ("BCK-STD-001" :> 800) @@ ("BCK-ARC-001" :> 1200) @@ ("BCK-FCR-001" :> 1000)

\* material ? material.unit_price * quantity : 0, where material is
\* materials.find(m => m.sku === sku); scale turns the product into Fine units.
PosPrice(materials, sku, quantity, scale) ==
    IF sku \in DOMAIN materials THEN materials[sku] * quantity * scale ELSE 0

\* Math.round(x * 100) / 100 of an amount in Fine units, in cents
RoundFine(x) == (x + Fine \div 2) \div Fine

\* Math.round of subtotal * eightieths / 80 in cents (the tax is 7/80 of the
\* subtotal and the total 87/80); the product is taken in two parts, the
\* whole multiples of 80 cents and the remainder, to stay within 32 bits.
RoundShare(subtotal, eightieths) ==
    LET whole == subtotal \div (80 * Fine)
        part  == subtotal % (80 * Fine)
    IN  whole * eightieths + (part * eightieths + 40 * Fine) \div (80 * Fine)

\* calculatePricing for the form's orderSpecs o and the materials loaded:
\* the breakdown passed to setPricing, in cents.
calculatePricing(o, materials) ==
    LET width      == o.imageWidth + o.matWidth * 2
        height     == o.imageHeight + o.matHeight * 2
        area       == width * height
        perim      == (width + height) * 2
        framePrice == PosPrice(materials, o.frameStyle, perim, Fine \div DimScale)
        matPrice   == IF o.matType # "none"
                        THEN PosPrice(materials, o.matType, area, Fine \div AreaScale)
                        ELSE 0
        glassPrice == PosPrice(materials, o.glassType, area, Fine \div AreaScale)
        backingPrice == PosPrice(materials, o.backingType, area, Fine \div AreaScale)
        laborPrice == ((3500 * Fine) \div 10) * ComplexityTable[o.complexity]
        rushBase   == framePrice + matPrice + glassPrice + laborPrice
        rushFee    == IF o.priority = "rush" THEN rushBase \div 2
                      ELSE IF o.priority = "express" THEN rushBase
                      ELSE 0
        subtotal   == framePrice + matPrice + glassPrice + backingPrice + laborPrice + rushFee
    IN  [ framePrice   |-> RoundFine(framePrice),
          matPrice     |-> RoundFine(matPrice),
          glassPrice   |-> RoundFine(glassPrice),
          backingPrice |-> RoundFine(backingPrice),
          laborPrice   |-> RoundFine(laborPrice),
          rushFee      |-> RoundFine(rushFee),
          subtotal     |-> RoundFine(subtotal),
          tax          |-> RoundShare(subtotal, 7),
          total        |-> RoundShare(subtotal, 87) ]

\* The useEffect on [orderSpecs, materials]: calculatePricing returns without
\* setting pricing when imageWidth or imageHeight is 0 (or NaN).
Repriced(pricing, o, materials) ==
    IF o.imageWidth = 0 \/ o.imageHeight = 0
      THEN pricing
      ELSE { calculatePricing(o, materials) }

\* The orderSpecs the form starts with and is reset to.
BlankOrderSpecs ==
    [ imageWidth |-> 16 * DimScale, imageHeight |-> 20 * DimScale,
      matWidth |-> 2 * DimScale, matHeight |-> 2 * DimScale,
      frameStyle |-> "", matType |-> "", glassType |-> "", backingType |-> "",
      complexity |-> "medium", priority |-> "standard" ]

\* The form after mount: no materials loaded yet, no customer selected.
BlankPos ==
    [ orderSpecs |-> BlankOrderSpecs,
      materials  |-> << >>,
      customer   |-> FALSE,
      pricing    |-> { calculatePricing(BlankOrderSpecs, << >>) },
      inserted   |-> {} ]

\* What the clerk can enter or pick in each field of the form.
PosChoices ==
    [ imageWidth  |-> {43},
      frameStyle  |-> {"FRAME-OAK-001"},
      matType     |-> {"none"},
      glassType   |-> {"GLS-REG-001"},
      complexity  |-> Complexities,
      priority    |-> Priorities ]

(***************************************************************************)
(* The development start scripts                                           *)
(***************************************************************************)
\* Before a start script is run.  script is the script run, alive the
\* manager process being there, received the number of SIGINT / SIGTERM it
\* got, shutdownAt the time of the first of them, clock the time in seconds,
\* timers the setTimeout callbacks pending; exited, killed and signals are
\* the server child: whether it has exited, serverProcess.killed, and the
\* signals sent to it.
NotStarted ==
    [ script |-> "none", alive |-> FALSE, isShuttingDown |-> FALSE,
      received |-> 0, shutdownAt |-> -1, clock |-> 0, timers |-> {},
      exited |-> FALSE, killed |-> FALSE, signals |-> << >> ]

(***************************************************************************)
(* Payments                                                                *)
(***************************************************************************)
\* Two orders as POST /orders leaves them (amountPaid 0.00 by default,
\* paymentStatus 'unpaid'), with totals of 10.00 and 5.00, and no payment
\* yet.  Columns of scale 2 are counted in cents.
NoPayments ==
    [ orders   |-> [ id \in {"o1", "o2"} |->
                       [ total |-> IF id = "o1" THEN 1000 ELSE 500,
                         amountPaid |-> 0,
                         paymentStatus |-> "unpaid" ] ],
      payments |-> << >> ]

(***************************************************************************)
(* AI analysis of the artwork image                                        *)
(***************************************************************************)
\* No order with an image yet.  created is the row as inserted, stored the
\* row as it is now, stage the position of the analysis ("none", "calling",
\* "returned", "done"), recommendations what analyzeArtworkImage resolved
\* to, failed whether the analysis failed.
NoAnalysis ==
    [ created |-> {}, stored |-> {}, stage |-> "none",
      recommendations |-> {}, failed |-> FALSE ]

(***************************************************************************)
(* Calls                                                                   *)
(***************************************************************************)
Init ==
    /\ today = 0
    /\ specs = InitialSpecs
    /\ result = calculateFramingPrice(InitialSpecs)
    /\ completion = {}
    /\ memo = {}
    /\ asked = {}
    /\ orders = << >>
    /\ counted = {}
    /\ loop = [ pc |-> "idle", completionDate |-> 0, advances |-> 0 ]
    /\ pos = BlankPos
    /\ manager = NotStarted
    /\ numbers = [ now |-> 0, waits |-> 0, table |-> [ via \in {"route", "form"} |-> {} ], failed |-> {} ]
    /\ ledger = NoPayments
    /\ analysis = NoAnalysis

\* What has happened since the calls kept in memo: event is "price" (another
\* call of calculateFramingPrice), "estimate" or "date".
Noted(event) == { [ m EXCEPT !.since = @ \cup {event} ] : m \in memo }

\* A caller passes s to calculateFramingPrice and keeps what it returns.
Call(s) ==
    /\ specs' = s
    /\ result' = calculateFramingPrice(s)
    /\ memo' = IF s = specs THEN memo ELSE Noted("price")
    /\ UNCHANGED <<today, completion, asked, orders, counted, rest>>

SetImageWidth   == \E v \in ImageWidths  : Call(With(specs, "imageWidth", v))
SetImageHeight  == \E v \in ImageHeights : Call(With(specs, "imageHeight", v))
SetMatWidth     == \E v \in MatBorders   : Call(With(specs, "matWidth", v))
OmitMatWidth    == Call(Without(specs, "matWidth"))
SetMatHeight    == \E v \in MatBorders   : Call(With(specs, "matHeight", v))
OmitMatHeight   == Call(Without(specs, "matHeight"))
SetFrameStyle   == \E v \in FrameStyles  : Call(With(specs, "frameStyle", v))
SetMatType      == \E v \in MatTypes     : Call(With(specs, "matType", v))
OmitMatType     == Call(Without(specs, "matType"))
SetGlassType    == \E v \in GlassTypes   : Call(With(specs, "glassType", v))
SetBackingType  == \E v \in BackingTypes : Call(With(specs, "backingType", v))
SetComplexity   == \E v \in Complexities : Call(With(specs, "complexity", v))
SetRush         == \E v \in BOOLEAN      : Call(With(specs, "rush", v))
OmitRush        == Call(Without(specs, "rush"))

Next ==
    \/ SetImageWidth \/ SetImageHeight
    \/ SetMatWidth \/ OmitMatWidth \/ SetMatHeight \/ OmitMatHeight
    \/ SetFrameStyle \/ SetMatType \/ OmitMatType
    \/ SetGlassType \/ SetBackingType
    \/ SetComplexity \/ SetRush \/ OmitRush

Spec == Init /\ [][Next]_vars

\* The order-creation flow keeps the specs it priced and the breakdown it got
\* (one call is kept).
Remember ==
    /\ memo = {}
    /\ memo' = { [ specs |-> specs, result |-> result, since |-> {} ] }
    /\ UNCHANGED <<specs, result, today, completion, asked, orders, counted, rest>>

\* The date advances by a day.
Tick ==
    /\ today < MaxDay
    /\ today' = today + 1
    /\ memo' = Noted("date")
    /\ UNCHANGED <<specs, result, completion, asked, orders, counted, rest>>

\* A caller asks for an estimated completion date.
Estimate ==
    \E w \in Workloads, c \in Complexities, p \in Priorities :
        /\ completion' = { calculateEstimatedCompletion(today, w, c, p) }
        /\ memo' = Noted("estimate")
        /\ UNCHANGED <<specs, result, today, asked, orders, counted, rest>>

\* Calls of both engine functions, interleaved with the passing of days.
NextCalls ==
    \/ SetRush \/ OmitRush \/ SetComplexity
    \/ Remember \/ Tick \/ Estimate

SpecCalls == Init /\ [][NextCalls]_vars

\* A caller asks for an estimated completion date and keeps the arguments
\* with the date returned.
AskEstimate ==
    \E w \in AnyWorkloads, c \in Complexities, p \in Priorities :
        /\ completion' = { calculateEstimatedCompletion(today, w, c, p) }
        /\ asked' = { [ now |-> today, currentWorkload |-> w,
                        orderComplexity |-> c, priority |-> p ] }
        /\ UNCHANGED <<specs, result, today, memo, orders, counted, rest>>

\* Calls of calculateEstimatedCompletion on every day of the week.
NextEstimates == Tick \/ AskEstimate

SpecEstimates == Init /\ [][NextEstimates]_vars

\* A caller that does not validate what it passes (the order route passes
\* parseFloat of the submitted dimensions and the submitted complexity).
PassImageWidth  == \E v \in AnyWidths       : Call(With(specs, "imageWidth", v))
PassImageHeight == \E v \in AnyHeights      : Call(With(specs, "imageHeight", v))
PassComplexity  == \E v \in AnyComplexities : Call(With(specs, "complexity", v))

NextAnyInput ==
    \/ PassImageWidth \/ PassImageHeight \/ PassComplexity
    \/ SetMatWidth \/ OmitMatWidth \/ SetRush

SpecAnyInput == Init /\ [][NextAnyInput]_vars

(***************************************************************************)
(* Order routes and production board                                       *)
(***************************************************************************)
\* orderData[key] || fallback for a string property: undefined and "" are
\* falsy.
OrDefault(d, key, fallback) ==
    IF Has(d, key) /\ d[key] # "" THEN d[key] ELSE fallback

\* parseFloat of a number: the number is turned into its shortest decimal
\* text, which parses back to the same number; NaN stays NaN.
parseFloat(v) == IF IsNaN(v) THEN NaN ELSE v

\* parseFloat(orderData.matWidth || 0)
ParsedBorder(d, key) == parseFloat(IF Has(d, key) /\ Truthy(d[key]) THEN d[key] ELSE 0)

\* Mutant: only the rush priority is priced as rush.
RouteSpecs_RushOnly(d) ==
    LET always ==
          [ imageWidth  |-> parseFloat(d.imageWidth),
            imageHeight |-> parseFloat(d.imageHeight),
            matWidth    |-> ParsedBorder(d, "matWidth"),
            matHeight   |-> ParsedBorder(d, "matHeight"),
            frameStyle  |-> OrDefault(d, "frameStyle", "contemporary"),
            glassType   |-> OrDefault(d, "glassType", "regular"),
            backingType |-> OrDefault(d, "backingType", "standard"),
            complexity  |-> OrDefault(d, "complexity", "medium"),
            rush        |-> Has(d, "priority") /\ d.priority = "rush" ]
    IN  IF Has(d, "matType") THEN With(always, "matType", d.matType) ELSE always

\* The OrderSpecs the route builds from the request body.
RouteSpecs(d) ==
    LET always ==
          [ imageWidth  |-> parseFloat(d.imageWidth),
            imageHeight |-> parseFloat(d.imageHeight),
            matWidth    |-> ParsedBorder(d, "matWidth"),
            matHeight   |-> ParsedBorder(d, "matHeight"),
            frameStyle  |-> OrDefault(d, "frameStyle", "contemporary"),
            glassType   |-> OrDefault(d, "glassType", "regular"),
            backingType |-> OrDefault(d, "backingType", "standard"),
            complexity  |-> OrDefault(d, "complexity", "medium"),
            rush        |-> Has(d, "priority") /\ d.priority \in {"rush", "express"} ]
    IN  IF Has(d, "matType") THEN With(always, "matType", d.matType) ELSE always

\* if (orderData.imageWidth && orderData.imageHeight): none or one breakdown
pricingBreakdown(d) ==
    IF /\ Has(d, "imageWidth") /\ Truthy(d.imageWidth)
       /\ Has(d, "imageHeight") /\ Truthy(d.imageHeight)
      THEN { calculateFramingPrice(RouteSpecs(d)).breakdown }
      ELSE {}

\* Mutant: orders ready for pickup counted as workload too.
currentWorkload_WithReady(table) ==
    Cardinality({ i \in DOMAIN table :
                    \/ table[i].status = "approved"
                    \/ table[i].status = "in_production"
                    \/ table[i].status = "quality_check"
                    \/ table[i].status = "ready" })

\* select count(*) from orders where status = 'approved' or status =
\* 'in_production' or status = 'quality_check'
currentWorkload(table) ==
    Cardinality({ i \in DOMAIN table :
                    \/ table[i].status = "approved"
                    \/ table[i].status = "in_production"
                    \/ table[i].status = "quality_check" })

\* The board: orders.filter(order => [...].includes(order.status)).length
activeOrders(list) ==
    Cardinality({ i \in DOMAIN list :
                    list[i].status \in {"approved", "in_production", "quality_check"} })

\* number.toString() stored in a decimal(10, 2) column: a value in whole cents
\* is kept as it is, and NaN is kept as the NaN of the numeric type.
DecimalColumn(x) == IF IsNaN(x) THEN NaN ELSE x

\* The columns copied from the request body when they are given.
CopiedColumns ==
    {"imageWidth", "imageHeight", "matWidth", "matHeight",
     "frameStyle", "matType", "glassType", "backingType"}

\* The values of tx.insert(orders).values({...}); a property that is
\* undefined is a column left null, a field the row does not have.
OrderRow(d, breakdown, estimatedCompletion) ==
    LET copied == [ k \in DOMAIN d \cap CopiedColumns |-> d[k] ]
        fixed  == [ status              |-> OrDefault(d, "status", "quote"),
                    priority            |-> OrDefault(d, "priority", "standard"),
                    complexity          |-> OrDefault(d, "complexity", "medium"),
                    estimatedCompletion |-> estimatedCompletion,
                    paymentStatus       |-> "unpaid" ]
        prices == IF breakdown # {}
                    THEN LET b == CHOOSE b \in breakdown : TRUE
                         IN  [ k \in BreakdownFields |-> DecimalColumn(b[k]) ]
                    ELSE [ k \in DOMAIN d \cap {"total"} |-> d[k] ]
    IN  copied @@ fixed @@ prices

\* POST /orders: price the order if both image dimensions are given, count
\* the workload, estimate the completion date and insert the row.  total is
\* a NOT NULL column: without a breakdown and without orderData.total the
\* insert fails and the transaction leaves the table as it was.
CreateOrder ==
    \E d \in OrderDatas :
        LET workload == currentWorkload(orders)
            row == OrderRow(d, pricingBreakdown(d),
                            calculateEstimatedCompletion(
                                today, workload,
                                OrDefault(d, "complexity", "medium"),
                                OrDefault(d, "priority", "standard")))
        IN  /\ Len(orders) < MaxOrders
            /\ counted' = { workload }
            /\ orders' = IF Has(row, "total") THEN Append(orders, row) ELSE orders
            /\ UNCHANGED <<specs, result, today, completion, memo, asked, rest>>

\* PATCH /orders/:id/status (a card dropped on another column of the board)
UpdateStatus ==
    \E i \in DOMAIN orders : \E status \in Statuses :
        /\ orders' = [ orders EXCEPT ![i].status = status ]
        /\ UNCHANGED <<specs, result, today, completion, memo, asked, counted, rest>>

NextOrders == CreateOrder \/ UpdateStatus

SpecOrders == Init /\ [][NextOrders]_vars

(***************************************************************************)
(* Properties of calculateFramingPrice                                     *)
(***************************************************************************)
\* specs of a well-formed order: positive image size, a complexity of the
\* enumeration, and material keys that are table keys or ordinary unknown
\* names (not names inherited from Object.prototype).
ValidSpecs(s) ==
    /\ s.imageWidth > 0 /\ s.imageHeight > 0
    /\ s.complexity \in DOMAIN ComplexityTable
    /\ s.frameStyle \notin ObjectPrototypeKeys
    /\ s.glassType \notin ObjectPrototypeKeys
    /\ s.backingType \notin ObjectPrototypeKeys
    /\ (Has(s, "matType") => s.matType \notin ObjectPrototypeKeys)

\* framePrice + matPrice + glassPrice + laborPrice, unrounded
RushBase(u) == Add(Add(Add(u.framePrice, u.matPrice), u.glassPrice), u.laborPrice)

\* C1: for every finished area a >= 0, fractional areas included, exactly one
\* entry of PRICING_TIERS has minSize <= a <= maxSize.
C1_ExactlyOneTier ==
    Leq(0, result.finishedSize.area)
        => Cardinality(MatchingTiers(result.finishedSize.area)) = 1

\* C2: a frameStyle, non-empty matType, glassType or backingType that is not
\* a key of its table is priced with the category default (3.0, 0.15, 0.08,
\* 0.05) times the perimeter or the area.
C2_UnknownKeyDefault ==
    LET area == finishedArea(specs)
    IN  /\ specs.frameStyle \notin DOMAIN MATERIAL_PRICING.frames
            => result.breakdown.framePrice
                 = RoundCents(Mul(Mul(300, perimeter(specs)), Micro \div DimScale))
        /\ (MatSelected(specs) /\ specs.matType \notin DOMAIN MATERIAL_PRICING.mats)
            => result.breakdown.matPrice
                 = RoundCents(Mul(Mul(15, area), Micro \div AreaScale))
        /\ specs.glassType \notin DOMAIN MATERIAL_PRICING.glass
            => result.breakdown.glassPrice
                 = RoundCents(Mul(Mul(8, area), Micro \div AreaScale))
        /\ specs.backingType \notin DOMAIN MATERIAL_PRICING.backing
            => result.breakdown.backingPrice
                 = RoundCents(Mul(Mul(5, area), Micro \div AreaScale))

\* C3: finishedSize.width = imageWidth + 2 * matWidth, finishedSize.height =
\* imageHeight + 2 * matHeight, finishedSize.area = width * height, an
\* omitted matWidth or matHeight counting as 0.
C3_FinishedSize ==
    LET mw == IF Has(specs, "matWidth") THEN specs.matWidth ELSE 0
        mh == IF Has(specs, "matHeight") THEN specs.matHeight ELSE 0
    IN  /\ result.finishedSize.width = specs.imageWidth + 2 * mw
        /\ result.finishedSize.height = specs.imageHeight + 2 * mh
        /\ result.finishedSize.area
             = (specs.imageWidth + 2 * mw) * (specs.imageHeight + 2 * mh)

\* A call with matWidth omitted and a mat border on the other axis only.
C3_Witness ==
    /\ ~Has(specs, "matWidth") /\ Has(specs, "matHeight") /\ specs.matHeight > 0
    /\ specs.imageWidth > 0
    /\ result.finishedSize.width = specs.imageWidth
    /\ result.finishedSize.height = specs.imageHeight + 2 * specs.matHeight

\* C4: with matType absent, or the no-mat value of either form ("" or
\* "none"), matPrice is 0 whatever the dimensions.
C4_NoMatIsFree ==
    (~Has(specs, "matType") \/ specs.matType \in {"", "none"})
        => result.breakdown.matPrice = 0

\* C5 (value): rushFee is 0 unless rush is true, and then half of
\* framePrice + matPrice + glassPrice + laborPrice (rounded at output).
C5_RushFeeValue ==
    result.breakdown.rushFee
      = IF Has(specs, "rush") /\ specs.rush
          THEN RoundCents(Half(RushBase(Unrounded(specs))))
          ELSE 0

\* C5 (backing): a call that differs from the previous one in backingType
\* only returns the same rushFee.
C5_BackingStep ==
    (/\ specs'.backingType # specs.backingType
     /\ specs' = With(specs, "backingType", specs'.backingType))
        => result'.breakdown.rushFee = result.breakdown.rushFee

\* C5: rushFee is 0 when rush is false or absent and 0.5 * (framePrice +
\* matPrice + glassPrice + laborPrice) when rush is true; changing only
\* backingType never changes rushFee.
C5_RushFee == []C5_RushFeeValue /\ [][C5_BackingStep]_vars

\* A rush call with a non-default backing, a backing price and a rush fee.
C5_Witness ==
    /\ Has(specs, "rush") /\ specs.rush
    /\ specs.backingType = "cork"
    /\ result.breakdown.backingPrice > 0
    /\ result.breakdown.rushFee > 0

\* A call with valid specs and rush not set, followed by the call with the
\* same specs and rush = true.
RushTurnedOn ==
    /\ ValidSpecs(specs)
    /\ ~RushSelected(specs)
    /\ specs' = With(specs, "rush", TRUE)

\* C6 as stated: the rush call returns a strictly larger total, and the two
\* totals differ by 50% of framePrice + matPrice + glassPrice + laborPrice.
C6_TotalGrowsByHalf ==
    [][RushTurnedOn
         => /\ result'.breakdown.total > result.breakdown.total
            /\ result'.breakdown.total - result.breakdown.total
                 = RoundCents(Half(RushBase(Unrounded(specs))))]_vars

\* C6 as amended: the rush call returns a strictly larger total; the
\* unrounded subtotal grows by exactly 50% of framePrice + matPrice +
\* glassPrice + laborPrice, and the unrounded total by 1.0875 times that
\* (the rush fee is taxed); the returned totals differ by that amount to
\* within one cent.
C6_TotalGrowsByTaxedHalf ==
    [][RushTurnedOn
         => LET half  == Half(RushBase(Unrounded(specs)))
                taxed == half + TaxOf(half)
                diff  == result'.breakdown.total - result.breakdown.total
            IN  /\ result'.breakdown.total > result.breakdown.total
                /\ Unrounded(specs').subtotal - Unrounded(specs).subtotal = half
                /\ Unrounded(specs').total - Unrounded(specs).total = taxed
                /\ diff - RoundCents(taxed) \in {-1, 0, 1}]_vars

\* A rush call with valid specs whose total exceeds that of the same specs
\* without rush.
C6_Witness ==
    /\ ValidSpecs(specs) /\ RushSelected(specs)
    /\ result.breakdown.rushFee > 0
    /\ result.breakdown.total
         > calculateFramingPrice(With(specs, "rush", FALSE)).breakdown.total

\* C7: in the returned breakdown total = subtotal + tax, the tax being
\* subtotal * 0.0875 rounded to cents.
C7_TotalIsSubtotalPlusTax ==
    /\ result.breakdown.tax = RoundCents(TaxOf(Unrounded(specs).subtotal))
    /\ result.breakdown.total = Add(result.breakdown.subtotal, result.breakdown.tax)

\* C8: the returned subtotal is the rounding of the sum of the unrounded
\* components, every breakdown field is the rounding of its unrounded
\* value, and finishedSize is returned unrounded.
C8_RoundedAtOutput ==
    LET u == Unrounded(specs)
        b == result.breakdown
    IN  /\ b.subtotal
             = RoundCents(Add(Add(Add(Add(Add(Add(u.basePrice, u.framePrice), u.matPrice),
                                          u.glassPrice), u.backingPrice), u.laborPrice),
                              u.rushFee))
        /\ \A k \in DOMAIN b : b[k] = RoundCents(u[k])
        /\ result.finishedSize.width
             = specs.imageWidth + 2 * MatBorder(specs, "matWidth")
        /\ result.finishedSize.height
             = specs.imageHeight + 2 * MatBorder(specs, "matHeight")
        /\ result.finishedSize.area
             = result.finishedSize.width * result.finishedSize.height

\* A call whose area is not a whole number of square inches and whose rounded
\* components do not add up to the rounded subtotal.
C8_Witness ==
    LET b == result.breakdown
    IN  /\ ValidSpecs(specs)
        /\ result.finishedSize.area % AreaScale # 0
        /\ b.subtotal # b.basePrice + b.framePrice + b.matPrice + b.glassPrice
                          + b.backingPrice + b.laborPrice + b.rushFee

\* The specs of the example: 16 x 20 in image, 2 in mat borders.
C10_ExampleSpecs ==
    [ imageWidth |-> 16 * DimScale, imageHeight |-> 20 * DimScale,
      matWidth |-> 2 * DimScale, matHeight |-> 2 * DimScale,
      frameStyle |-> "contemporary", matType |-> "conservation",
      glassType |-> "uv-protection", backingType |-> "archival",
      complexity |-> "medium", rush |-> FALSE ]

\* C10: the example returns finished size 20 x 24, area 480, basePrice 125,
\* framePrice 550, matPrice 120, glassPrice 86.4, backingPrice 57.6,
\* laborPrice 260, rushFee 0, subtotal 1199, tax 104.91, total 1303.91.
C10_Example ==
    specs = C10_ExampleSpecs
        => /\ result.finishedSize
                = [ width |-> 20 * DimScale, height |-> 24 * DimScale,
                    area |-> 480 * AreaScale ]
           /\ result.breakdown
                = [ basePrice |-> 12500, framePrice |-> 55000, matPrice |-> 12000,
                    glassPrice |-> 8640, backingPrice |-> 5760, laborPrice |-> 26000,
                    rushFee |-> 0, subtotal |-> 119900, tax |-> 10491,
                    total |-> 130391 ]

\* The example has been priced.
C10_Witness ==
    /\ specs = C10_ExampleSpecs
    /\ result.breakdown.total = 130391

SpecsWidth  == specs.imageWidth + 2 * MatBorder(specs, "matWidth")
SpecsHeight == specs.imageHeight + 2 * MatBorder(specs, "matHeight")
SpecsArea   == SpecsWidth * SpecsHeight

\* unit price (cents) times a length (quarter inches), in cents
ByLength(unitPrice, length) ==
    RoundCents(Mul(Mul(unitPrice, length), Micro \div DimScale))
\* unit price (cents) times an area (sixteenths of a square inch), in cents
ByArea(unitPrice, area) ==
    RoundCents(Mul(Mul(unitPrice, area), Micro \div AreaScale))

\* C17: framePrice is the frame unit price times 2 * (finishedWidth +
\* finishedHeight); glassPrice, backingPrice and, with a mat selected,
\* matPrice are their unit price times the finished area; basePrice is the
\* flat basePrice of the tier of the finished area, whatever the materials.
C17_MaterialPrices ==
    LET b == result.breakdown
    IN  /\ b.framePrice = ByLength(UnitPrice("frames", specs.frameStyle),
                                   2 * (SpecsWidth + SpecsHeight))
        /\ b.glassPrice = ByArea(UnitPrice("glass", specs.glassType), SpecsArea)
        /\ b.backingPrice = ByArea(UnitPrice("backing", specs.backingType), SpecsArea)
        /\ (Has(specs, "matType") /\ specs.matType # "")
              => b.matPrice = ByArea(UnitPrice("mats", specs.matType), SpecsArea)
        /\ b.basePrice = TierFor(SpecsArea).basePrice * 100

\* A call with a mat whose frame, mat, glass and backing prices are all
\* different and whose frame is not square.
C17_Witness ==
    LET b == result.breakdown
    IN  /\ ValidSpecs(specs) /\ MatSelected(specs)
        /\ SpecsWidth # SpecsHeight
        /\ specs.frameStyle = "basic-wood" /\ specs.glassType = "acrylic"
        /\ Cardinality({b.framePrice, b.matPrice, b.glassPrice, b.backingPrice}) = 4
        /\ b.framePrice = (250 * 2 * (SpecsWidth + SpecsHeight)) \div DimScale

\* C18: laborPrice is basePrice * laborMultiplier of the tier of the
\* finished area times the complexity multiplier 1.0 / 1.3 / 1.7, whatever
\* the materials and rush.
C18_LaborPrice ==
    LET tier == TierFor(SpecsArea)
        cm   == IF specs.complexity = "simple" THEN 10
                ELSE IF specs.complexity = "medium" THEN 13 ELSE 17
    IN  specs.complexity \in {"simple", "medium", "complex"}
            => /\ result.breakdown.basePrice = tier.basePrice * 100
               /\ result.breakdown.laborPrice
                    = tier.basePrice * tier.laborMultiplier * cm

\* A rush call of a complex order with non-default materials in a tier whose
\* laborMultiplier is not 1.0.
C18_Witness ==
    /\ RushSelected(specs) /\ specs.complexity = "complex"
    /\ specs.frameStyle = "walnut" /\ specs.backingType = "cork"
    /\ result.breakdown.basePrice = 125 * 100
    /\ result.breakdown.laborPrice = 34000

\* C19: when no entry of PRICING_TIERS contains the finished area the order
\* is priced with the last tier (basePrice 350, laborMultiplier 2.5), and
\* with a non-negative finished area some entry always contains it.
C19_FallbackUnreachable ==
    /\ MatchingTiers(SpecsArea) = {}
          => /\ result.breakdown.basePrice = 350 * 100
             /\ result.breakdown.laborPrice
                  = 350 * 25 * complexityMultiplier(specs.complexity)
    /\ SpecsArea >= 0 => MatchingTiers(SpecsArea) # {}

\* C11: with imageWidth <= 0 or imageHeight <= 0 a result is returned (a
\* breakdown of ten fields and a finished size), and whenever the finished
\* area is 0 the tier selected is the smallest (basePrice 45,
\* laborMultiplier 1.0).
C11_DegenerateSize ==
    /\ (specs.imageWidth <= 0 \/ specs.imageHeight <= 0)
          => /\ DOMAIN result = {"breakdown", "finishedSize"}
             /\ DOMAIN result.breakdown = BreakdownFields
             /\ DOMAIN result.finishedSize = {"width", "height", "area"}
    /\ result.finishedSize.area = 0
          => /\ result.breakdown.basePrice = 45 * 100
             /\ specs.complexity \in {"simple", "medium", "complex"}
                   => result.breakdown.laborPrice
                        = 45 * 10 * (IF specs.complexity = "simple" THEN 10
                                     ELSE IF specs.complexity = "medium" THEN 13
                                     ELSE 17)

\* A call with a negative image width that the mat border brings to a
\* finished width, and area, of 0.
C11_Witness ==
    /\ specs.imageWidth < 0 /\ specs.imageHeight > 0
    /\ result.finishedSize.width = 0
    /\ result.finishedSize.area = 0
    /\ result.breakdown.basePrice = 45 * 100

\* C20: every field of the returned breakdown is a number (not NaN), and a
\* complexity outside the enumeration is priced with multiplier 1.0.
C20_TotalFunction ==
    /\ \A k \in DOMAIN result.breakdown : ~IsNaN(result.breakdown[k])
    /\ specs.complexity \notin {"simple", "medium", "complex"}
          => \E i \in DOMAIN PRICING_TIERS :
                /\ result.breakdown.basePrice = PRICING_TIERS[i].basePrice * 100
                /\ result.breakdown.laborPrice
                     = PRICING_TIERS[i].basePrice * PRICING_TIERS[i].laborMultiplier * 10

(***************************************************************************)
(* Properties of calculateEstimatedCompletion                              *)
(***************************************************************************)
\* (baseProcessingDays + workloadDelay) * priorityMultiplier in 200ths of a
\* day, from the figures of the claim: base days 3 / 5 / 8, half a day for
\* every order above 15, multipliers 1.0 / 0.5 / 0.25.
DayCount200(w, c, p) ==
    LET base2  == IF c = "simple" THEN 6 ELSE IF c = "medium" THEN 10 ELSE 16
        delay2 == IF w > 15 THEN w - 15 ELSE 0
        mult   == IF p = "standard" THEN 100 ELSE IF p = "rush" THEN 50 ELSE 25
    IN  (base2 + delay2) * mult

\* C12: totalDays is the least whole number of days not below (base days +
\* workloadDelay) * priorityMultiplier, workloadDelay = max(0, (workload -
\* 15) * 0.5) uncapped; a workload of at most 15 adds nothing; (10, simple,
\* standard) and (20, complex, express) both give 3 days.
C12_TotalDays ==
    /\ \A a \in asked :
          LET n == totalDays(a.currentWorkload, a.orderComplexity, a.priority)
              x == DayCount200(a.currentWorkload, a.orderComplexity, a.priority)
          IN  /\ 200 * n >= x /\ 200 * (n - 1) < x
              /\ a.currentWorkload <= 15
                    => n = totalDays(0, a.orderComplexity, a.priority)
              /\ \A d \in completion : d >= a.now + n
    /\ totalDays(10, "simple", "standard") = 3
    /\ totalDays(20, "complex", "express") = 3

\* An estimate asked with a workload whose delay (12.5 days) exceeds every
\* base day count: 8 + 12.5 days, rounded up to 21.
C12_Witness ==
    \E a \in asked :
        /\ a.currentWorkload = 40 /\ a.orderComplexity = "complex"
        /\ a.priority = "standard"
        /\ completion = { SkipWeekends(a.now + 21) }

\* C13: the returned date is the first weekday on or after today +
\* totalDays: never a Saturday or Sunday, never before today + totalDays, at
\* most 2 days after it.
C13_FirstWeekday ==
    \A a \in asked : \A d \in completion :
        LET target == a.now
                        + totalDays(a.currentWorkload, a.orderComplexity, a.priority)
        IN  /\ d % 7 \notin {0, 6}
            /\ d >= target
            /\ d <= target + 2
            /\ \A e \in target .. (d - 1) : e % 7 \in {0, 6}

\* An estimate whose today + totalDays is a Saturday and whose returned date
\* is the Monday after.
C13_Witness ==
    \E a \in asked : \E d \in completion :
        /\ (a.now + totalDays(a.currentWorkload, a.orderComplexity, a.priority)) % 7 = 6
        /\ d = a.now + totalDays(a.currentWorkload, a.orderComplexity, a.priority) + 2
        /\ d % 7 = 1

\* C14: for the date, workload and complexity of an estimate, the express
\* date is not after the rush date, and the rush date not after the standard
\* date.
C14_PaidPriorityNotLater ==
    \A a \in asked :
        LET on(p) == calculateEstimatedCompletion(a.now, a.currentWorkload,
                                                  a.orderComplexity, p)
        IN  on("express") <= on("rush") /\ on("rush") <= on("standard")

\* A rush estimate that is strictly between the express and the standard
\* dates of the same day, workload and complexity.
C14_Witness ==
    \E a \in asked :
        LET on(p) == calculateEstimatedCompletion(a.now, a.currentWorkload,
                                                  a.orderComplexity, p)
        IN  /\ a.priority = "rush"
            /\ completion = { on("rush") }
            /\ on("express") < on("rush") /\ on("rush") < on("standard")

(***************************************************************************)
(* Properties of the order routes                                          *)
(***************************************************************************)
\* The number of rows of a table whose status is approved, in_production or
\* quality_check.
InProduction(table) ==
    Cardinality({ i \in DOMAIN table :
        table[i].status \in {"approved", "in_production", "quality_check"} })

\* C15 (board): the board's count of active orders and the route's count are
\* both the number of orders in the three statuses.
C15_BoardCount ==
    /\ activeOrders(orders) = InProduction(orders)
    /\ currentWorkload(orders) = InProduction(orders)

\* C15 (route): a POST /orders reads as currentWorkload the number of orders
\* in the three statuses in the table as it is before the insert.
C15_CountStep ==
    (Len(orders') > Len(orders) \/ counted' # counted)
        => counted' = { InProduction(orders) }

\* C15: the currentWorkload of order creation is the number of orders whose
\* status is approved, in_production or quality_check when counted, and the
\* board counts active orders over the same three statuses.
C15_Workload == []C15_BoardCount /\ [][C15_CountStep]_vars

\* A second order was created while the first was in quality check, and the
\* first has been moved to ready since.
C15_Witness ==
    /\ Len(orders) = 2 /\ counted = {1}
    /\ orders[1].status = "ready" /\ orders[2].status = "quote"
    /\ activeOrders(orders) = 0

\* The specs as submitted, read back from the columns of a row: a property
\* that was left out is undefined.
SubmittedSpecs(r) ==
    [ k \in (DOMAIN r \cap {"imageWidth", "imageHeight", "matWidth", "matHeight", "matType"})
              \cup {"frameStyle", "glassType", "backingType", "complexity", "rush"} |->
        IF k = "rush" THEN r.priority \in {"rush", "express"}
        ELSE IF k \in DOMAIN r THEN r[k] ELSE "undefined" ]

\* C16 as stated: every order created with imageWidth and imageHeight
\* supplied stores the ten fields of the breakdown calculateFramingPrice
\* returns for the submitted specs, rush being set exactly when the priority
\* is rush or express.
C16_StoredIsBreakdown ==
    \A i \in DOMAIN orders :
        LET r == orders[i]
        IN  (Has(r, "imageWidth") /\ Has(r, "imageHeight"))
              => /\ BreakdownFields \subseteq DOMAIN r
                 /\ [ k \in BreakdownFields |-> r[k] ]
                      = calculateFramingPrice(SubmittedSpecs(r)).breakdown

\* The specs the route prices, read back from the columns of a row: mat
\* borders left out are 0, materials left out are contemporary, regular and
\* standard (the complexity column already holds medium for one left out).
PricedSpecs(r) ==
    [ k \in (DOMAIN r \cap {"matType"})
              \cup {"imageWidth", "imageHeight", "matWidth", "matHeight",
                    "frameStyle", "glassType", "backingType", "complexity", "rush"} |->
        IF k = "rush" THEN r.priority \in {"rush", "express"}
        ELSE IF k \in {"imageWidth", "imageHeight", "matWidth", "matHeight"}
          THEN IF k \in DOMAIN r THEN r[k] ELSE 0
        ELSE IF k \in DOMAIN r /\ r[k] # "" THEN r[k]
        ELSE IF k = "frameStyle" THEN "contemporary"
        ELSE IF k = "glassType" THEN "regular"
        ELSE IF k = "backingType" THEN "standard"
        ELSE "" ]

\* C16 as amended: every order created with a non-zero imageWidth and
\* imageHeight stores the ten fields of the breakdown calculateFramingPrice
\* returns for the submitted specs completed with the route's defaults, rush
\* being set exactly when the priority is rush or express.
C16_StoredIsRouteBreakdown ==
    \A i \in DOMAIN orders :
        LET r == orders[i]
        IN  (/\ Has(r, "imageWidth") /\ r.imageWidth # 0
             /\ Has(r, "imageHeight") /\ r.imageHeight # 0)
              => /\ BreakdownFields \subseteq DOMAIN r
                 /\ [ k \in BreakdownFields |-> r[k] ]
                      = calculateFramingPrice(PricedSpecs(r)).breakdown

\* An express order submitted complete and an order submitted with the image
\* size only are both stored with their prices, the first with a rush fee.
C16_Witness ==
    /\ Len(orders) = 2
    /\ orders[1].priority = "express" /\ Has(orders[1], "frameStyle")
    /\ Has(orders[1], "rushFee") /\ orders[1].rushFee > 0
    /\ orders[1].total > orders[1].subtotal
    /\ orders[2].priority = "standard" /\ ~Has(orders[2], "frameStyle")
    /\ Has(orders[2], "framePrice") /\ orders[2].rushFee = 0

(***************************************************************************)
(* Monotonicity of calculateFramingPrice                                   *)
(***************************************************************************)
\* The materials, complexity and rush flag of s, the dimensions left out.
Fixings(s) ==
    [ k \in DOMAIN s \ {"imageWidth", "imageHeight", "matWidth", "matHeight"} |-> s[k] ]

\* A call followed by a call whose specs differ only by a larger imageWidth,
\* imageHeight, matWidth or matHeight (an omitted mat border counts as 0),
\* all dimensions being non-negative and both totals being numbers.
DimensionGrows ==
    /\ specs' # specs
    /\ Fixings(specs') = Fixings(specs)
    /\ specs.imageWidth >= 0 /\ specs.imageHeight >= 0
    /\ MatBorder(specs, "matWidth") >= 0 /\ MatBorder(specs, "matHeight") >= 0
    /\ specs'.imageWidth >= specs.imageWidth
    /\ specs'.imageHeight >= specs.imageHeight
    /\ MatBorder(specs', "matWidth") >= MatBorder(specs, "matWidth")
    /\ MatBorder(specs', "matHeight") >= MatBorder(specs, "matHeight")
    /\ ~IsNaN(result.breakdown.total) /\ ~IsNaN(result'.breakdown.total)

\* C25: with materials, complexity and rush fixed and all dimensions
\* non-negative, a call with a larger imageWidth, imageHeight, matWidth or
\* matHeight returns a total and a basePrice that are not smaller.
C25_MonotoneInDimensions ==
    [][DimensionGrows
         => /\ result'.breakdown.total >= result.breakdown.total
            /\ result'.breakdown.basePrice >= result.breakdown.basePrice]_vars

(***************************************************************************)
(* calculateEstimatedCompletion called with unvalidated arguments          *)
(***************************************************************************)
\* The order route passes orderData.priority || 'standard' of a request body
\* that is not validated: any string can arrive.
AnyPriorities == Priorities \cup {"overnight"}

\* A caller passes a complexity and a priority it did not validate and keeps
\* the arguments with the date returned.
AskAnyEstimate ==
    \E w \in AnyWorkloads, c \in AnyComplexities, p \in AnyPriorities :
        /\ completion' = { calculateEstimatedCompletion(today, w, c, p) }
        /\ asked' = { [ now |-> today, currentWorkload |-> w,
                        orderComplexity |-> c, priority |-> p ] }
        /\ UNCHANGED <<specs, result, today, memo, orders, counted, rest>>

NextAnyEstimates == Tick \/ AskAnyEstimate

SpecAnyEstimates == Init /\ [][NextAnyEstimates]_vars

\* The complexity / priority the estimator is said to fall back to.
AsComplexity(c) == IF c \in Complexities THEN c ELSE "medium"
AsPriority(p)   == IF p \in Priorities THEN p ELSE "standard"

\* C21: for every workload and for a complexity or priority outside its
\* enumeration, calculateEstimatedCompletion returns a valid date that falls
\* on a weekday, the one it returns for 'medium' / 'standard' in place of the
\* value outside the enumeration.
C21_DefaultsForInvalid ==
    \A a \in asked :
        (a.orderComplexity \notin Complexities \/ a.priority \notin Priorities)
          => \A d \in completion :
                /\ ~IsNaN(d)
                /\ getDay(d) \in 1..5
                /\ d = calculateEstimatedCompletion(a.now, a.currentWorkload,
                          AsComplexity(a.orderComplexity), AsPriority(a.priority))

(***************************************************************************)
(* The weekend loop of calculateEstimatedCompletion, one iteration a step  *)
(***************************************************************************)
\* Mutant: Friday counts as a weekend day too.
OnWeekend_WithFriday(date) == ~IsNaN(date) /\ getDay(date) \in {0, 5, 6}

\* completionDate.getDay() === 0 || completionDate.getDay() === 6; getDay()
\* of an invalid date is NaN, which equals neither.
OnWeekend(date) == ~IsNaN(date) /\ getDay(date) \in {0, 6}

\* The call computes totalDays and sets completionDate to today + totalDays
\* (an invalid date when totalDays is NaN); the loop is about to be tested.
StartEstimate ==
    /\ loop.pc \in {"idle", "done"}
    /\ \E w \in AnyWorkloads, c \in AnyComplexities, p \in AnyPriorities :
          LET days == totalDays(w, c, p)
          IN  loop' = [ pc |-> "loop",
                        completionDate |-> IF IsNaN(days) THEN NaN ELSE today + days,
                        advances |-> 0 ]
    /\ UNCHANGED <<engine, pos, manager, numbers, ledger, analysis>>

\* The loop condition holds: completionDate.setDate(getDate() + 1).
LoopAdvance ==
    /\ loop.pc = "loop"
    /\ OnWeekend(loop.completionDate)
    /\ loop' = [ loop EXCEPT !.completionDate = @ + 1, !.advances = @ + 1 ]
    /\ UNCHANGED <<engine, pos, manager, numbers, ledger, analysis>>

\* The loop condition fails: return completionDate.
LoopExit ==
    /\ loop.pc = "loop"
    /\ ~OnWeekend(loop.completionDate)
    /\ loop' = [ loop EXCEPT !.pc = "done" ]
    /\ UNCHANGED <<engine, pos, manager, numbers, ledger, analysis>>

\* The passing of days while no call is running (a call is synchronous).
NextDay ==
    /\ loop.pc # "loop"
    /\ Tick

NextLoop == NextDay \/ StartEstimate \/ LoopAdvance \/ LoopExit

\* The call runs on one thread and nothing preempts it for ever: an
\* iteration or the return that can be taken is taken.
SpecLoop ==
    /\ Init /\ [][NextLoop]_vars
    /\ WF_vars(LoopAdvance) /\ WF_vars(LoopExit)

C22_AtMostTwoAdvances == loop.advances <= 2

\* C22: for every workload, complexity and priority and every start date,
\* the weekend loop advances the date at most twice, and a call that has
\* reached the loop returns.
C22_LoopTerminates ==
    /\ []C22_AtMostTwoAdvances
    /\ (loop.pc = "loop") ~> (loop.pc = "done")

\* A call whose date fell on a Saturday has returned after two advances.
C22_Witness ==
    /\ loop.pc = "done"
    /\ loop.advances = 2
    /\ getDay(loop.completionDate) = 1

(***************************************************************************)
(* The order form at work                                                  *)
(***************************************************************************)
\* One onChange handler of the form: setOrderSpecs(prev => ({...prev, [field]:
\* value})), followed by the effect that recalculates the pricing.
EditOrderSpecs ==
    \E field \in DOMAIN PosChoices :
      \E value \in PosChoices[field] :
        LET o == [ pos.orderSpecs EXCEPT ![field] = value ]
        IN  /\ o # pos.orderSpecs
            /\ pos' = [ pos EXCEPT !.orderSpecs = o,
                                   !.pricing = Repriced(@, o, pos.materials) ]
            /\ UNCHANGED <<engine, loop, manager, numbers, ledger, analysis>>

\* loadMaterials resolves: setMaterials(data), and the effect recalculates.
LoadMaterials ==
    /\ pos.materials = << >>
    /\ pos' = [ pos EXCEPT !.materials = materialsToSeed,
                           !.pricing = Repriced(@, pos.orderSpecs, materialsToSeed) ]
    /\ UNCHANGED <<engine, loop, manager, numbers, ledger, analysis>>

\* The clerk selects a customer.
SelectCustomer ==
    /\ ~pos.customer
    /\ pos' = [ pos EXCEPT !.customer = TRUE ]
    /\ UNCHANGED <<engine, loop, manager, numbers, ledger, analysis>>

\* The row createOrder inserts for orderSpecs o and the pricing breakdown b.
PosOrderRow(o, b) ==
    [ image_width |-> o.imageWidth, image_height |-> o.imageHeight,
      mat_width |-> o.matWidth, mat_height |-> o.matHeight,
      frame_style |-> o.frameStyle, mat_type |-> o.matType,
      glass_type |-> o.glassType, backing_type |-> o.backingType,
      complexity |-> o.complexity, priority |-> o.priority,
      frame_price |-> b.framePrice,
      mat_price |-> IF o.matType = "none" THEN 0 ELSE b.matPrice,
      glass_price |-> b.glassPrice, backing_price |-> b.backingPrice,
      labor_price |-> b.laborPrice, rush_fee |-> b.rushFee,
      subtotal |-> b.subtotal, tax |-> b.tax, total |-> b.total,
      status |-> "quote" ]

\* createOrder: returns at once without a customer or a pricing; inserts the
\* row, resets the form (the effect prices the blank specs again).
createOrder ==
    /\ pos.customer /\ pos.pricing # {}
    /\ pos' = [ pos EXCEPT
                  !.inserted = { PosOrderRow(pos.orderSpecs, b) : b \in pos.pricing },
                  !.orderSpecs = BlankOrderSpecs,
                  !.customer = FALSE,
                  !.pricing = Repriced({}, BlankOrderSpecs, pos.materials) ]
    /\ UNCHANGED <<engine, loop, manager, numbers, ledger, analysis>>

NextPos == EditOrderSpecs \/ LoadMaterials \/ SelectCustomer \/ createOrder

SpecPos == Init /\ [][NextPos]_vars

\* The specs of an inserted row as calculateFramingPrice takes them: the
\* boolean rush stands for the priorities 'rush' and 'express'.
RowSpecs(r) ==
    [ imageWidth |-> r.image_width, imageHeight |-> r.image_height,
      matWidth |-> r.mat_width, matHeight |-> r.mat_height,
      frameStyle |-> r.frame_style, matType |-> r.mat_type,
      glassType |-> r.glass_type, backingType |-> r.backing_type,
      complexity |-> r.complexity,
      rush |-> r.priority \in {"rush", "express"} ]

\* The prices of an inserted row under the names of the breakdown.
RowBreakdown(r) ==
    [ framePrice |-> r.frame_price, matPrice |-> r.mat_price,
      glassPrice |-> r.glass_price, backingPrice |-> r.backing_price,
      laborPrice |-> r.labor_price, rushFee |-> r.rush_fee,
      subtotal |-> r.subtotal, tax |-> r.tax, total |-> r.total ]

MaxClock == 7
MaxSignals == 2

\* start-dev-fixed.mjs and the stable start script
Scripts == {"start-dev-fixed", "start-stable"}

\* The script is run: the server child is spawned.
StartScript ==
    /\ manager.script = "none"
    /\ \E s \in Scripts : manager' = [ manager EXCEPT !.script = s, !.alive = TRUE ]
    /\ UNCHANGED <<engine, loop, pos, numbers, ledger, analysis>>

\* serverProcess.kill(signal): a child that has exited gets nothing and
\* killed keeps its value; otherwise the signal is sent and killed becomes
\* true.  SIGKILL ends the child; SIGTERM leaves the exit to the child.
Kill(m, signal) ==
    IF m.exited
      THEN m
      ELSE [ m EXCEPT !.signals = Append(@, signal),
                      !.killed = TRUE,
                      !.exited = (signal = "SIGKILL") ]

\* if (serverProcess && !serverProcess.killed) serverProcess.kill(signal)
KillUnlessKilled(m, signal) == IF m.killed THEN m ELSE Kill(m, signal)

\* gracefulShutdown of start-dev-fixed.mjs for the manager m that is not
\* shutting down yet: the 5 s timer is set only when the child was not
\* killed, the 1 s exit timer always.
gracefulShutdown(m) ==
    LET sent == KillUnlessKilled([ m EXCEPT !.isShuttingDown = TRUE ], "SIGTERM")
    IN  [ sent EXCEPT !.timers =
            @ \cup (IF m.killed THEN {} ELSE { [ due |-> m.clock + 5, run |-> "force" ] })
              \cup { [ due |-> m.clock + 1, run |-> "exit" ] } ]

\* shutdown of the stable start script: every signal runs it again.
shutdown(m) ==
    [ KillUnlessKilled(m, "SIGTERM") EXCEPT !.timers =
        @ \cup { [ due |-> m.clock + 5, run |-> "forceAndExit" ] } ]

\* The manager receives SIGINT or SIGTERM.
Signal ==
    /\ manager.alive
    /\ manager.received < MaxSignals
    /\ LET m == [ manager EXCEPT !.received = @ + 1,
                                 !.shutdownAt = IF @ < 0 THEN manager.clock ELSE @ ]
       IN  manager' = IF m.script = "start-dev-fixed"
                        THEN IF m.isShuttingDown THEN m ELSE gracefulShutdown(m)
                        ELSE shutdown(m)
    /\ UNCHANGED <<engine, loop, pos, numbers, ledger, analysis>>

\* A timer that is due runs its callback.
Timeout ==
    /\ manager.alive
    /\ \E t \in manager.timers :
          /\ t.due <= manager.clock
          /\ LET m == [ manager EXCEPT !.timers = @ \ {t} ]
             IN  manager' =
                   IF t.run = "force" THEN KillUnlessKilled(m, "SIGKILL")
                   ELSE IF t.run = "exit" THEN [ m EXCEPT !.alive = FALSE, !.timers = {} ]
                   ELSE [ KillUnlessKilled(m, "SIGKILL") EXCEPT !.alive = FALSE, !.timers = {} ]
    /\ UNCHANGED <<engine, loop, pos, numbers, ledger, analysis>>

\* The server child exits, of its own or after SIGTERM.
ChildExits ==
    /\ manager.script # "none"
    /\ ~manager.exited
    /\ manager' = [ manager EXCEPT !.exited = TRUE ]
    /\ UNCHANGED <<engine, loop, pos, numbers, ledger, analysis>>

\* A second passes; a live manager runs its timers when they are due.
Second ==
    /\ manager.script # "none"
    /\ manager.clock < MaxClock
    /\ manager.alive => \A t \in manager.timers : t.due > manager.clock
    /\ manager' = [ manager EXCEPT !.clock = @ + 1 ]
    /\ UNCHANGED <<engine, loop, pos, numbers, ledger, analysis>>

NextScript == StartScript \/ Signal \/ Timeout \/ ChildExits \/ Second

SpecScript == Init /\ [][NextScript]_vars

\* how many times signal was sent to the child
TimesSent(signal) ==
    Cardinality({ i \in DOMAIN manager.signals : manager.signals[i] = signal })

\* C24: after SIGINT or SIGTERM the child is sent SIGTERM once, however many
\* signals the manager receives, and a child that has not exited 5 seconds
\* after the shutdown began has been sent SIGKILL before the manager process
\* is gone: no state has the manager gone and the child still running, not
\* killed, 5 seconds after the first signal.
C24_TermOnceThenKill ==
    /\ TimesSent("SIGTERM") <= 1
    /\ manager.received > 0 /\ ~manager.exited => TimesSent("SIGTERM") = 1
    /\ (/\ manager.received > 0
        /\ manager.clock >= manager.shutdownAt + 5
        /\ ~manager.alive
        /\ ~manager.exited)
         => TimesSent("SIGKILL") > 0

(***************************************************************************)
(* Order numbers                                                           *)
(***************************************************************************)
\* slice(-8) keeps eight decimal digits
SliceModulus == 100000000

MaxWaits == 3

\* Date.now() is counted from an instant whose millisecond count is a
\* multiple of SliceModulus (as 1700000000000 is), so that its last eight
\* digits are those of the count kept in numbers.now.
\* `JF-${Date.now().toString().slice(-8)}`: the text of a timestamp has 13
\* digits, slice(-8) keeps the last eight; the order number is given by
\* their value, the prefix being the same for all.
OrderNumberAt(now) == now % SliceModulus

\* Times between two creations, in milliseconds: the next millisecond, and
\* 27 h 46 min 40 s.
Delays == {1, SliceModulus}

\* Time passes.
Later ==
    /\ numbers.waits < MaxWaits
    /\ \E d \in Delays :
          numbers' = [ numbers EXCEPT !.now = @ + d, !.waits = @ + 1 ]
    /\ UNCHANGED <<engine, loop, pos, manager, ledger, analysis>>

\* An order is created through via (POST /orders or the form's createOrder):
\* the row with the generated order number is inserted, unless the UNIQUE
\* constraint of order_number rejects it (the route answers 500, the form
\* alerts 'Failed to create order').
IssueOrderNumber(via) ==
    LET orderNumber == OrderNumberAt(numbers.now)
        row == [ orderNumber |-> orderNumber, createdAt |-> numbers.now ]
    IN  /\ numbers' =
             IF \E r \in numbers.table[via] : r.orderNumber = orderNumber
               THEN [ numbers EXCEPT !.failed = @ \cup { [ via |-> via, at |-> numbers.now,
                                                          orderNumber |-> orderNumber ] } ]
               ELSE [ numbers EXCEPT !.table[via] = @ \cup {row} ]
        /\ UNCHANGED <<engine, loop, pos, manager, ledger, analysis>>

RouteIssues == IssueOrderNumber("route")
FormIssues  == IssueOrderNumber("form")

NextNumbers == Later \/ RouteIssues \/ FormIssues

SpecNumbers == Init /\ [][NextNumbers]_vars

\* C26: two orders created at different times get different order numbers,
\* so that no creation is rejected by the UNIQUE constraint on account of an
\* order created at another time.
C26_UniqueOrderNumbers ==
    \A f \in numbers.failed :
        \A r \in numbers.table[f.via] :
            r.createdAt # f.at => r.orderNumber # f.orderNumber

(***************************************************************************)
(* POST /orders/:id/payments                                               *)
(***************************************************************************)
MaxPayments == 3

\* JavaScript numbers of the payment route are counted in mills (tenths of
\* a cent): an amount of the request body may carry more than two decimals.
\* Sums are exact here; the binary rounding of a sum of doubles (100.1 +
\* 200.2 is 300.29999999999995) is a second source of digits beyond the
\* cents and is left out.
MillsPerCent == 10

\* Amounts of the request body, in mills: 5.00, 4.995, 10.00, 0.01 and a
\* refund of 5.00.
Amounts == {5000, 4995, 10000, 10, -5000}

\* The ids of the requests: the two orders and an id no order has.
PaymentIds == DOMAIN NoPayments.orders \cup {"o9"}

\* A number written to a decimal(10,2) column: the database rounds it to
\* two decimals, half away from zero.  Mills in, cents out.
DecimalColumn2(mills) ==
    IF mills >= 0
      THEN (mills + MillsPerCent \div 2) \div MillsPerCent
      ELSE -((-mills + MillsPerCent \div 2) \div MillsPerCent)

\* let paymentStatus = 'partial'; if (newAmountPaid >= orderTotal) 'paid';
\* else if (newAmountPaid <= 0) 'unpaid'
StatusFor(newAmountPaid, orderTotal) ==
    IF newAmountPaid >= orderTotal THEN "paid"
    ELSE IF newAmountPaid <= 0 THEN "unpaid"
    ELSE "partial"

\* The transaction of the route for the order id and the amount, on the
\* tables l: an unknown id throws before anything is written; otherwise the
\* payment row is inserted and the order's amountPaid and paymentStatus are
\* updated from parseFloat(order.amountPaid) + parseFloat(amount).
Paid(l, id, amount) ==
    IF id \notin DOMAIN l.orders
      THEN l
      ELSE LET order         == l.orders[id]
               currentPaid   == order.amountPaid * MillsPerCent
               newAmountPaid == currentPaid + amount
               orderTotal    == order.total * MillsPerCent
           IN  [ orders   |-> [ l.orders EXCEPT
                                  ![id].amountPaid = DecimalColumn2(newAmountPaid),
                                  ![id].paymentStatus = StatusFor(newAmountPaid, orderTotal) ],
                 payments |-> Append(l.payments,
                                     [ orderId |-> id, amount |-> DecimalColumn2(amount),
                                       status |-> "completed" ]) ]

\* One request, its transaction taken as a whole.
ProcessPayment ==
    /\ Len(ledger.payments) < MaxPayments
    /\ \E id \in PaymentIds, amount \in Amounts :
          ledger' = Paid(ledger, id, amount)
    /\ UNCHANGED <<engine, loop, pos, manager, numbers, analysis>>

NextPayments == ProcessPayment

SpecPayments == Init /\ [][NextPayments]_vars

\* the orders that have a payment row
PaidOrders == { ledger.payments[i].orderId : i \in DOMAIN ledger.payments }

\* C28: after every payment made on an order its paymentStatus is 'paid'
\* exactly when amountPaid >= total, 'unpaid' exactly when amountPaid <= 0
\* and amountPaid < total, and 'partial' otherwise; no payment row belongs
\* to an id that no order has.
C28_StatusFollowsAmountPaid ==
    /\ \A id \in PaidOrders \cap DOMAIN ledger.orders :
          LET order == ledger.orders[id]
          IN  order.paymentStatus =
                IF order.amountPaid >= order.total THEN "paid"
                ELSE IF order.amountPaid <= 0 THEN "unpaid"
                ELSE "partial"
    /\ PaidOrders \subseteq DOMAIN ledger.orders

(***************************************************************************)
(* Order creation with an artwork image and the AI analysis it starts      *)
(***************************************************************************)
\* Request bodies of POST /orders: a complete order of each complexity and
\* an order with the image size only, the priority given or not, with an
\* image, with an empty list of images or without the property.
ImageOrderDatas ==
    { [ k \in DOMAIN base \cup given |->
          IF k = "imageUrls" THEN urls
          ELSE IF k = "priority" THEN p
          ELSE base[k] ] :
        base \in { With(FullOrderData, "complexity", c) : c \in Complexities }
                   \cup {BareOrderData},
        urls \in { << >>, <<"artwork.jpg">> },
        p \in Priorities,
        given \in SUBSET {"imageUrls", "priority"} }

\* if (orderData.imageUrls && orderData.imageUrls.length > 0)
HasImages(d) == Has(d, "imageUrls") /\ Len(d.imageUrls) > 0

\* What the model answers when the call succeeds: the fields of
\* ImageAnalysisResult that matter here, for each complexity it can name.
AnalysisResults ==
    { [ artworkType |-> "painting", complexity |-> c,
        recommendedGlass |-> "museum", confidence |-> 90 ] : c \in Complexities }

\* getFallbackRecommendations (confidence in hundredths)
getFallbackRecommendations ==
    [ artworkType |-> "unknown", complexity |-> "medium",
      recommendedGlass |-> "uv-protection", confidence |-> 30 ]

\* POST /orders with a body that may carry an image: the row is inserted as
\* by CreateOrder and, when an image is given, analyzeArtworkImage is
\* called without being awaited.
CreateOrderWithImage ==
    /\ analysis.stage \in {"none", "done"}
    /\ \E d \in ImageOrderDatas :
          LET row == OrderRow(d, pricingBreakdown(d),
                              calculateEstimatedCompletion(
                                  today, currentWorkload(orders),
                                  OrDefault(d, "complexity", "medium"),
                                  OrDefault(d, "priority", "standard")))
          IN  analysis' = [ created |-> {row}, stored |-> {row},
                            stage |-> IF HasImages(d) THEN "calling" ELSE "done",
                            recommendations |-> {}, failed |-> FALSE ]
    /\ UNCHANGED <<engine, loop, pos, manager, numbers, ledger>>

\* The OpenAI call answers with a JSON text that parses: analyzeArtworkImage
\* resolves to the result built from it.
AnalysisReturns ==
    /\ analysis.stage = "calling"
    /\ \E recommendations \in AnalysisResults :
          analysis' = [ analysis EXCEPT !.stage = "returned",
                                        !.recommendations = {recommendations} ]
    /\ UNCHANGED <<engine, loop, pos, manager, numbers, ledger>>

\* The call throws, answers without content, or with a text JSON.parse
\* rejects: the catch block resolves to getFallbackRecommendations().
AnalysisFails ==
    /\ analysis.stage = "calling"
    /\ analysis' = [ analysis EXCEPT !.stage = "returned",
                                     !.recommendations = {getFallbackRecommendations},
                                     !.failed = TRUE ]
    /\ UNCHANGED <<engine, loop, pos, manager, numbers, ledger>>

\* db.update(orders).set({ aiRecommendations: recommendations, complexity:
\* recommendations.complexity, ... }) on the row
Recommended(row, recommendations) ==
    With(With(row, "aiRecommendations", recommendations),
         "complexity", recommendations.complexity)

\* The .then of the route: updateOrderWithAIRecommendations updates the row.
updateOrderWithAIRecommendations ==
    /\ analysis.stage = "returned"
    /\ analysis' = [ analysis EXCEPT
                       !.stage = "done",
                       !.stored = { Recommended(row, recommendations) :
                                      row \in analysis.stored,
                                      recommendations \in analysis.recommendations } ]
    /\ UNCHANGED <<engine, loop, pos, manager, numbers, ledger>>

\* The update throws (the error is logged) or finds no row: nothing changes.
UpdateFails ==
    /\ analysis.stage = "returned"
    /\ analysis' = [ analysis EXCEPT !.stage = "done" ]
    /\ UNCHANGED <<engine, loop, pos, manager, numbers, ledger>>

NextAnalysis ==
    \/ CreateOrderWithImage \/ AnalysisReturns \/ AnalysisFails
    \/ updateOrderWithAIRecommendations \/ UpdateFails

SpecAnalysis == Init /\ [][NextAnalysis]_vars

\* C29: in every state of an order creation interleaved with the AI update
\* it starts, the laborPrice, subtotal and total stored on a priced order are
\* those calculateFramingPrice gives for the specs and the complexity stored
\* on the order.
C29_PricesFollowComplexity ==
    \A r \in analysis.stored :
        Has(r, "laborPrice")
          => LET b == calculateFramingPrice(PricedSpecs(r)).breakdown
             IN  /\ r.laborPrice = b.laborPrice
                 /\ r.subtotal = b.subtotal
                 /\ r.total = b.total

\* C30: when the AI analysis failed, the stored order is the order as it
\* was created: same complexity, and no aiRecommendations.
C30_FailureLeavesOrder ==
    analysis.failed
      => \A r \in analysis.stored : \A c \in analysis.created :
            /\ r.complexity = c.complexity
            /\ Has(r, "aiRecommendations") = Has(c, "aiRecommendations")

=============================================================================
